---- MODULE Spec2Model ----
(***************************************************************************)
(* State-machine model of the pingdoh audition server: the in-memory       *)
(* store (server/storage.ts), the submission handler, the background       *)
(* evaluation task and the portal administration routes                    *)
(* (server/routes.ts).                                                     *)
(*                                                                         *)
(* Units.  Raw sub-scores (final_score) are rationals; the model carries   *)
(* them as integers counting thousandths (Scale), so 0.81 is 810 and 82 is *)
(* 82000.  Stored scores (ai_score) are the integers the code stores.      *)
(* A nullable number is a sequence of length at most one: <<>> is null and *)
(* <<n>> is the number n.                                                  *)
(***************************************************************************)
EXTENDS Integers, Sequences, FiniteSets, TLC

(***************************************************************************)
(* Bounds of the model                                                     *)
(***************************************************************************)
MaxRec == 2            \* Recordings ever created (fresh ids 1..MaxRec)
MaxLen == 3            \* length of a results list given to the score extractor
PollBudget == 1        \* poll attempts of a task when handlers and tasks interleave

(***************************************************************************)
(* Program constants                                                       *)
(***************************************************************************)
\* a retry bound allowing one more upload attempt
uploadRetries_more == 3 + 1

uploadRetries == 3
uploadBackoffMs == 1000
pollIntervalMs == 2000
pollMaxAttempts == 120
Scale == 1000

Emails == {"a@x", "b@x"}
NoEmail == ""

Null == << >>
Some(n) == << n >>

Statuses == {"pending", "under_review", "scored", "closed"}

(***************************************************************************)
(* Remote payloads: the body of GET /evaluate/results/{task_id}.           *)
(***************************************************************************)
Item(v) == [final_score |-> Some(v)]
ItemMissing == [final_score |-> Null]

Payload(st, hasR, rs) == [status |-> st, hasResults |-> hasR, results |-> rs]
NoPayload == Payload("", FALSE, << >>)

\* payloads the remote service returns with HTTP success
Completed81 == Payload("completed", TRUE, << Item(810) >>)
CompletedTakes == Payload("completed", TRUE, << Item(200), Item(950), Item(600) >>)
CompletedPercent == Payload("completed", TRUE, << Item(40000), Item(82000) >>)
CompletedHalf == Payload("completed", TRUE, << Item(125) >>)
CompletedEmpty == Payload("completed", TRUE, << >>)
Failed50 == Payload("failed", TRUE, << Item(500) >>)
FailedBare == Payload("failed", FALSE, << >>)
Processing == Payload("processing", FALSE, << >>)
Queued20 == Payload("queued", TRUE, << Item(200) >>)
CompletedOver == Payload("completed", TRUE, << Item(150000) >>)

\* the test taking only completed for a terminal status
IsTerminal_completedOnly(p) == p.status = "completed"

IsTerminal(p) == p.status \in {"completed", "failed"}

\* every kind of response of the remote service
AllPayloads ==
  { Completed81, CompletedTakes, CompletedPercent, CompletedHalf, CompletedEmpty,
    Failed50, FailedBare, Processing, Queued20, CompletedOver }
AllUploadResponses == {"ok_task_id", "ok_no_task_id", "http_error", "transport"}
AllPollFailures == {"not_ready", "http_error", "transport"}

\* the responses drawn when handlers and tasks interleave
OkPayloads == { Completed81, CompletedEmpty, Failed50, Processing }
UploadResponses == {"ok_task_id", "ok_no_task_id", "transport"}
PollFailures == {"not_ready", "transport"}

(***************************************************************************)
(* ai_result values                                                        *)
(***************************************************************************)
Result(tag, err, det, pl) == [tag |-> tag, error |-> err, detail |-> det, payload |-> pl]
NullResult == Result("null", "", "", NoPayload)
ErrorResult(err, det) == Result("error", err, det, NoPayload)
RawResult(pl) == Result("raw", "", "", pl)

(***************************************************************************)
(* Score extraction (routes.ts 174-185)                                    *)
(***************************************************************************)
\* Math.max keeping its second argument
MathMax_second(a, b) == b

MathMax(a, b) == IF a >= b THEN a ELSE b

\* Math.round on a value given in thousandths: floor(x + 0.5)
MathRound(x) == (x + (Scale \div 2)) \div Scale

\* Number(r.final_score ?? 0)
NumberOrZero(fs) == IF fs = Null THEN 0 ELSE fs[1]

RECURSIVE Reduce(_, _)
Reduce(arr, max) ==
  IF arr = << >> THEN max
  ELSE Reduce(Tail(arr), MathMax(max, NumberOrZero(Head(arr).final_score)))

resultsArray(finalResult) ==
  IF finalResult.hasResults THEN finalResult.results ELSE << >>

ai_score(finalResult) ==
  IF Len(resultsArray(finalResult)) > 0
    THEN Some(Reduce(resultsArray(finalResult), 0))
    ELSE Null

\* the percent conversion without the scaling of values up to 1
ai_score_percent_unscaled(score) ==
  IF score = Null THEN Null ELSE Some(MathRound(score[1]))

\* the percent conversion scaling the values up to 2
ai_score_percent_upTo2(score) ==
  IF score = Null THEN Null
  ELSE IF score[1] <= 2 * Scale THEN Some(MathRound(score[1] * 100))
       ELSE Some(MathRound(score[1]))

ai_score_percent(score) ==
  IF score = Null THEN Null
  ELSE IF score[1] <= Scale THEN Some(MathRound(score[1] * 100))
       ELSE Some(MathRound(score[1]))

\* every finished evaluation taken for a success
finalStatus_always(finalResult) == "scored"

finalStatus(finalResult) ==
  IF finalResult.status = "completed" THEN "scored" ELSE "closed"

(***************************************************************************)
(* State                                                                   *)
(***************************************************************************)
VARIABLES
  recordings,     \* MemStorage.recordings: id -> Recording
  portalStatus,   \* MemStorage.portalStatus
  nextId,         \* number of ids handed out by randomUUID
  converting,     \* email -> number of submit handlers awaiting convertToMp3
  task,           \* id -> state of sendMp3ToAiAndUpdateRecording(_, id)
  resp,           \* the response sent by the step just taken, if any
  remote,         \* the remote response consumed by the step just taken, if any
  payload,        \* extractor input: a results list
  extracted,      \* extractor outputs for that input, one per application
  files,          \* id -> the artifacts in uploadDir of the upload of Recording id
  failing         \* id of the Recording the conversion-failure path has created
                  \* and not yet updated (0: none)

vars == << recordings, portalStatus, nextId, converting, task, resp, remote,
           payload, extracted, files, failing >>

Ids == 1..MaxRec

(***************************************************************************)
(* MemStorage (storage.ts)                                                 *)
(***************************************************************************)
\* the filter comparing the wrong field of the Recording
getRecordingsByEmail_url(email) ==
  { id \in DOMAIN recordings : recordings[id].audio_url = email }

\* the filter passing over the Recordings that are closed
getRecordingsByEmail_notClosed(email) ==
  { id \in DOMAIN recordings :
      recordings[id].email = email /\ recordings[id].status # "closed" }

getRecordingsByEmail(email) ==
  { id \in DOMAIN recordings : recordings[id].email = email }

getAllRecordings == DOMAIN recordings

\* the merge onto a copy of the Recording made before its result was written
Merge_stale(recording, updates) ==
  [f \in DOMAIN recording |->
     IF f \in DOMAIN updates THEN updates[f]
     ELSE IF f = "ai_result" THEN NullResult ELSE recording[f]]

\* { ...recording, ...updates }
Merge(recording, updates) ==
  [f \in DOMAIN recording |->
     IF f \in DOMAIN updates THEN updates[f] ELSE recording[f]]

\* createRecording copying a status other than the inserted one
createRecording_review(recs, id, email, audio_url, status) ==
  [i \in DOMAIN recs \cup {id} |->
     IF i = id
       THEN [id |-> id, email |-> email, audio_url |-> audio_url,
             status |-> "under_review", ai_score |-> Null, ai_result |-> NullResult,
             created_at |-> id]
       ELSE recs[i]]

\* the store after createRecording(insertRecording) assigned it the id `id`
createRecording(recs, id, email, audio_url, status) ==
  [i \in DOMAIN recs \cup {id} |->
     IF i = id
       THEN [id |-> id, email |-> email, audio_url |-> audio_url,
             status |-> status, ai_score |-> Null, ai_result |-> NullResult,
             created_at |-> id]
       ELSE recs[i]]

\* updateRecording throws "Recording not found" when the id is absent
updateThrows(recs, id) == id \notin DOMAIN recs

\* the update stamping the record with a creation time of its own
updateRecording_restamp(recs, id, updates) ==
  [recs EXCEPT ![id] = [Merge(recs[id], updates) EXCEPT !.created_at = 0]]

updateRecording(recs, id, updates) ==
  [recs EXCEPT ![id] = Merge(recs[id], updates)]

\* new Map(): the store holding no Recording
EmptyStore == [i \in {} |-> NullResult]

\* clearAllRecordings as the specification describes it (MemStorage defines
\* no such method): the store with every Recording removed
clearAllRecordings == EmptyStore

(***************************************************************************)
(* Evaluation task state: the locals of sendMp3ToAiAndUpdateRecording      *)
(***************************************************************************)
NoTask ==
  [pc |-> "none",
   uploadAttempt |-> 0, uploadJson |-> "null", lastUploadErr |-> "null",
   pollAttempt |-> 0, finalResult |-> Null, lastPollError |-> "null"]

\* a response, with the request it answers (op; for a submit the email and
\* whether the audio file was present; for a restart the mode, carried in
\* the email field)
Response(op, email, hasFile, code, message, rec) ==
  [op |-> op, email |-> email, hasFile |-> hasFile,
   code |-> code, message |-> message, recording |-> rec]
NoResponse == Response("", NoEmail, FALSE, 0, "", << >>)

\* a response of the remote service to the task of Recording id: the answer
\* r to an upload or poll request, with the payload p of an HTTP-success
\* poll and the time in ms the task then waits in setTimeout (0: no wait)
Remote(kind, id, r, p, wait) ==
  [kind |-> kind, id |-> id, r |-> r, payload |-> p, wait |-> wait]
NoRemote == Remote("", 0, "", NoPayload, 0)

Init ==
  /\ recordings = EmptyStore
  /\ portalStatus = [is_open |-> TRUE]
  /\ nextId = 0
  /\ converting = [e \in Emails |-> 0]
  /\ task = [id \in Ids |-> NoTask]
  /\ resp = NoResponse
  /\ remote = NoRemote
  /\ payload = << >>
  /\ extracted = << >>
  /\ files = [id \in Ids |-> {}]
  /\ failing = 0

(***************************************************************************)
(* POST /api/recordings (routes.ts 225-263)                                *)
(***************************************************************************)
RECURSIVE SumOver(_, _)
SumOver(f, S) ==
  IF S = {} THEN 0
  ELSE LET x == CHOOSE y \in S : TRUE IN f[x] + SumOver(f, S \ {x})

InFlight == SumOver(converting, Emails)

MsgRequired == "Email and audio file are required"
MsgClosed == "Audition portal is closed"
MsgDuplicate == "User already has a recording submitted"
MsgConversion == "Audio conversion failed"

\* the handler with the duplicate check ahead of the portal check
SubmitRequest_dupFirst(email, hasFile, cap) ==
  /\ failing = 0
  /\ UNCHANGED << recordings, portalStatus, nextId, task, payload, extracted, files, failing >>
  /\ remote' = NoRemote
  /\ IF email = NoEmail \/ ~hasFile
       THEN /\ resp' = Response("submit", email, hasFile, 400, MsgRequired, << >>)
            /\ UNCHANGED converting
     ELSE IF getRecordingsByEmail(email) # {}
       THEN /\ resp' = Response("submit", email, hasFile, 400, MsgDuplicate, << >>)
            /\ UNCHANGED converting
     ELSE IF ~portalStatus.is_open
       THEN /\ resp' = Response("submit", email, hasFile, 403, MsgClosed, << >>)
            /\ UNCHANGED converting
     ELSE /\ nextId + InFlight < cap
          /\ converting' = [converting EXCEPT ![email] = @ + 1]
          /\ resp' = NoResponse

\* the handler from the arrival of the request to the await of convertToMp3;
\* cap is the number of Recordings the model lets be created
SubmitRequest(email, hasFile, cap) ==
  /\ failing = 0
  /\ UNCHANGED << recordings, portalStatus, nextId, task, payload, extracted, files, failing >>
  /\ remote' = NoRemote
  /\ IF email = NoEmail \/ ~hasFile
       THEN /\ resp' = Response("submit", email, hasFile, 400, MsgRequired, << >>)
            /\ UNCHANGED converting
     ELSE IF ~portalStatus.is_open
       THEN /\ resp' = Response("submit", email, hasFile, 403, MsgClosed, << >>)
            /\ UNCHANGED converting
     ELSE IF getRecordingsByEmail(email) # {}
       THEN /\ resp' = Response("submit", email, hasFile, 400, MsgDuplicate, << >>)
            /\ UNCHANGED converting
     ELSE /\ nextId + InFlight < cap
          /\ converting' = [converting EXCEPT ![email] = @ + 1]
          /\ resp' = NoResponse

\* convertToMp3 resolved: the mp3 is written and the upload is unlinked,
\* the Recording is created pending, the evaluation task is handed to
\* setImmediate and the Recording is returned
ConvertResolved(email) ==
  /\ converting[email] > 0
  /\ converting' = [converting EXCEPT ![email] = @ - 1]
  /\ nextId' = nextId + 1
  /\ recordings' = createRecording(recordings, nextId', email, "mp3", "pending")
  /\ task' = [task EXCEPT ![nextId'] = [NoTask EXCEPT !.pc = "scheduled"]]
  /\ files' = [files EXCEPT ![nextId'] = {"mp3"}]
  /\ resp' = Response("submit", email, TRUE, 200, "", << recordings'[nextId'] >>)
  /\ remote' = NoRemote
  /\ failing = 0
  /\ UNCHANGED << portalStatus, payload, extracted, failing >>

\* the failure path going on to hand the evaluation task to setImmediate
ConvertRejected_started(email) ==
  /\ failing = 0
  /\ converting[email] > 0
  /\ converting' = [converting EXCEPT ![email] = @ - 1]
  /\ nextId' = nextId + 1
  /\ recordings' = createRecording(recordings, nextId', email, "original", "closed")
  /\ files' = [files EXCEPT ![nextId'] = {"original"}]
  /\ failing' = nextId'
  /\ task' = [task EXCEPT ![nextId'] = [NoTask EXCEPT !.pc = "scheduled"]]
  /\ resp' = NoResponse
  /\ remote' = NoRemote
  /\ UNCHANGED << portalStatus, payload, extracted >>

\* the failure path unlinking the upload as the success path does
ConvertRejected_unlinked(email) ==
  /\ failing = 0
  /\ converting[email] > 0
  /\ converting' = [converting EXCEPT ![email] = @ - 1]
  /\ nextId' = nextId + 1
  /\ recordings' = createRecording(recordings, nextId', email, "original", "closed")
  /\ files' = [files EXCEPT ![nextId'] = {}]
  /\ failing' = nextId'
  /\ resp' = NoResponse
  /\ remote' = NoRemote
  /\ UNCHANGED << portalStatus, task, payload, extracted >>

\* convertToMp3 rejected, up to the await of createRecording: the upload is
\* left in uploadDir and a closed Recording naming it is stored
ConvertRejected(email) ==
  /\ failing = 0
  /\ converting[email] > 0
  /\ converting' = [converting EXCEPT ![email] = @ - 1]
  /\ nextId' = nextId + 1
  /\ recordings' = createRecording(recordings, nextId', email, "original", "closed")
  /\ files' = [files EXCEPT ![nextId'] = {"original"}]
  /\ failing' = nextId'
  /\ resp' = NoResponse
  /\ remote' = NoRemote
  /\ UNCHANGED << portalStatus, task, payload, extracted >>

\* the rest of the failure path, run as the continuation of that await
\* before any other callback: the conversion error is stored in the
\* Recording and the caller gets a 500
ConvertRejectedUpdate ==
  /\ failing # 0
  /\ recordings' =
       updateRecording(
         recordings, failing,
         [ai_score |-> Null,
          ai_result |-> ErrorResult("Audio conversion to mp3 failed", "ffmpeg")])
  /\ failing' = 0
  /\ resp' = Response("submit", recordings[failing].email, TRUE, 500, MsgConversion, << >>)
  /\ remote' = NoRemote
  /\ UNCHANGED << portalStatus, nextId, converting, task, payload, extracted, files >>

(***************************************************************************)
(* sendMp3ToAiAndUpdateRecording (routes.ts 63-194)                        *)
(***************************************************************************)
\* the task handed to setImmediate again when it returns
Returned_rescheduled(pc) == [NoTask EXCEPT !.pc = "scheduled"]

\* the task after the function returned ("done") or its promise was
\* rejected ("unhandled"): its locals are gone
Returned(pc) == [NoTask EXCEPT !.pc = pc]

\* the update written to every stored Recording
TaskUpdate_all(id, updates, pcAfter, taskAfter) ==
  IF updateThrows(recordings, id)
    THEN /\ task' = [task EXCEPT ![id] = Returned("unhandled")]
         /\ UNCHANGED recordings
    ELSE /\ recordings' = [j \in DOMAIN recordings |-> Merge(recordings[j], updates)]
         /\ task' = [task EXCEPT ![id] =
                       IF pcAfter = "done" THEN Returned("done")
                       ELSE [taskAfter EXCEPT !.pc = pcAfter]]

\* a store update made inside the task's try block: when updateRecording
\* throws, the catch block's own updateRecording throws again and the
\* promise of the task is rejected with nobody handling it
TaskUpdate(id, updates, pcAfter, taskAfter) ==
  IF updateThrows(recordings, id)
    THEN /\ task' = [task EXCEPT ![id] = Returned("unhandled")]
         /\ UNCHANGED recordings
    ELSE /\ recordings' = updateRecording(recordings, id, updates)
         /\ task' = [task EXCEPT ![id] =
                       IF pcAfter = "done" THEN Returned("done")
                       ELSE [taskAfter EXCEPT !.pc = pcAfter]]

\* the setImmediate callback: the task runs up to its first upload request
StartTask(id) ==
  /\ task[id].pc = "scheduled"
  /\ task' = [task EXCEPT ![id] = [@ EXCEPT !.pc = "uploading", !.uploadAttempt = 1]]
  /\ resp' = NoResponse
  /\ remote' = NoRemote
  /\ failing = 0
  /\ UNCHANGED << recordings, portalStatus, nextId, converting, payload, extracted, files, failing >>

\* String(lastUploadErr?.message ?? lastUploadErr)
UploadErrDetail(e) ==
  IF e = "transport" THEN "fetch failed"
  ELSE IF e = "http_error" THEN "[object Object]" ELSE "null"

\* the poll loop entered without the under_review update
AfterUpload_noReview(id, t) ==
  IF t.uploadJson = "null"
    THEN TaskUpdate(id,
           [status |-> "closed", ai_score |-> Null,
            ai_result |-> ErrorResult("AI upload failed",
                                      UploadErrDetail(t.lastUploadErr))],
           "done", t)
  ELSE IF t.uploadJson = "no_task_id"
    THEN TaskUpdate(id,
           [status |-> "closed", ai_score |-> Null,
            ai_result |-> ErrorResult("No task_id returned", "")],
           "done", t)
  ELSE /\ task' = [task EXCEPT ![id] = [t EXCEPT !.pollAttempt = 1, !.pc = "polling"]]
       /\ UNCHANGED recordings

\* what follows the upload loop (routes.ts 116-130)
AfterUpload(id, t) ==
  IF t.uploadJson = "null"
    THEN TaskUpdate(id,
           [status |-> "closed", ai_score |-> Null,
            ai_result |-> ErrorResult("AI upload failed",
                                      UploadErrDetail(t.lastUploadErr))],
           "done", t)
  ELSE IF t.uploadJson = "no_task_id"
    THEN TaskUpdate(id,
           [status |-> "closed", ai_score |-> Null,
            ai_result |-> ErrorResult("No task_id returned", "")],
           "done", t)
  ELSE TaskUpdate(id, [status |-> "under_review"], "polling",
                  [t EXCEPT !.pollAttempt = 1])

\* the backoff not growing with the attempt number
uploadWait_flat(attempt) == uploadBackoffMs

\* setTimeout(r, uploadBackoffMs * attempt)
uploadWait(attempt) == uploadBackoffMs * attempt

\* the loop taking a success response without task identifier for a failure
UploadStep_retryNoId(id, r) ==
  /\ task[id].pc = "uploading"
  /\ resp' = NoResponse
  /\ remote' = Remote("upload", id, r, NoPayload,
                      IF r \in {"ok_task_id", "ok_no_task_id"} THEN 0
                      ELSE uploadWait(task[id].uploadAttempt))
  /\ failing = 0
  /\ UNCHANGED << portalStatus, nextId, converting, payload, extracted, files, failing >>
  /\ IF r = "ok_task_id"
       THEN AfterUpload(id, [task[id] EXCEPT !.uploadJson = "task_id"])
     ELSE IF task[id].uploadAttempt < uploadRetries
       THEN /\ task' = [task EXCEPT ![id] =
                          [@ EXCEPT !.lastUploadErr = r, !.uploadAttempt = @ + 1]]
            /\ UNCHANGED recordings
     ELSE AfterUpload(id, [task[id] EXCEPT !.lastUploadErr = r])

\* the response to upload request number uploadAttempt: an HTTP success
\* leaves the loop, a failure is followed by the backoff wait and by the
\* next request while attempts remain
UploadStep(id, r) ==
  /\ task[id].pc = "uploading"
  /\ resp' = NoResponse
  /\ remote' = Remote("upload", id, r, NoPayload,
                      IF r \in {"ok_task_id", "ok_no_task_id"} THEN 0
                      ELSE uploadWait(task[id].uploadAttempt))
  /\ failing = 0
  /\ UNCHANGED << portalStatus, nextId, converting, payload, extracted, files, failing >>
  /\ IF r \in {"ok_task_id", "ok_no_task_id"}
       THEN AfterUpload(id,
              [task[id] EXCEPT
                 !.uploadJson = IF r = "ok_task_id" THEN "task_id" ELSE "no_task_id"])
     ELSE IF task[id].uploadAttempt < uploadRetries
       THEN /\ task' = [task EXCEPT ![id] =
                          [@ EXCEPT !.lastUploadErr = r, !.uploadAttempt = @ + 1]]
            /\ UNCHANGED recordings
     ELSE AfterUpload(id, [task[id] EXCEPT !.lastUploadErr = r])

\* String(lastPollError?.message ?? lastPollError)
PollErrDetail(e) ==
  IF e = "transport" THEN "fetch failed"
  ELSE IF e = "http_error" THEN "[object Object]" ELSE "null"

\* what follows the poll loop (routes.ts 168-187)
AfterPoll(id, t) ==
  IF t.finalResult = Null
    THEN TaskUpdate(id,
           [status |-> "closed", ai_score |-> Null,
            ai_result |-> ErrorResult("AI polling timed out",
                                      PollErrDetail(t.lastPollError))],
           "done", t)
    ELSE TaskUpdate(id,
           [status |-> finalStatus(t.finalResult[1]),
            ai_score |-> ai_score_percent(ai_score(t.finalResult[1])),
            ai_result |-> RawResult(t.finalResult[1])],
           "done", t)

\* the loop starting over when its attempts are used up
PollContinue_restart(id, t, terminal, maxAttempts) ==
  IF terminal
    THEN AfterPoll(id, t)
    ELSE /\ task' = [task EXCEPT ![id] =
                       [t EXCEPT !.pollAttempt =
                          IF t.pollAttempt >= maxAttempts THEN 1 ELSE @ + 1]]
         /\ UNCHANGED recordings

\* the loop after the response to poll request number pollAttempt: break on
\* a terminal status, otherwise wait and poll again while attempts remain
PollContinue(id, t, terminal, maxAttempts) ==
  IF terminal \/ t.pollAttempt >= maxAttempts
    THEN AfterPoll(id, t)
    ELSE /\ task' = [task EXCEPT ![id] = [t EXCEPT !.pollAttempt = @ + 1]]
         /\ UNCHANGED recordings

\* an HTTP-success poll response carrying payload p
PollOk(id, p, maxAttempts) ==
  /\ task[id].pc = "polling"
  /\ resp' = NoResponse
  /\ remote' = Remote("poll", id, "ok", p,
                      IF IsTerminal(p) THEN 0 ELSE pollIntervalMs)
  /\ failing = 0
  /\ UNCHANGED << portalStatus, nextId, converting, payload, extracted, files, failing >>
  /\ PollContinue(id, [task[id] EXCEPT !.finalResult = Some(p)],
                  IsTerminal(p), maxAttempts)

\* the loop recording the not-ready answer as a poll error too
PollFail_recordAll(id, r, maxAttempts) ==
  /\ task[id].pc = "polling"
  /\ resp' = NoResponse
  /\ remote' = Remote("poll", id, r, NoPayload, pollIntervalMs)
  /\ failing = 0
  /\ UNCHANGED << portalStatus, nextId, converting, payload, extracted, files, failing >>
  /\ PollContinue(id, [task[id] EXCEPT !.lastPollError = r], FALSE, maxAttempts)

\* a not-ready 400, another non-success response, or a transport failure
PollFail(id, r, maxAttempts) ==
  /\ task[id].pc = "polling"
  /\ resp' = NoResponse
  /\ remote' = Remote("poll", id, r, NoPayload, pollIntervalMs)
  /\ failing = 0
  /\ UNCHANGED << portalStatus, nextId, converting, payload, extracted, files, failing >>
  /\ PollContinue(id,
       IF r = "not_ready" THEN task[id]
       ELSE [task[id] EXCEPT !.lastPollError = r],
       FALSE, maxAttempts)

(***************************************************************************)
(* POST /api/close_audition (routes.ts 290-304)                            *)
(***************************************************************************)
\* values of Math.floor(Math.random() * 101) the model draws
CloseScores == {0, 100}

\* the filter keeping only the Recordings still pending
Unscored_pending ==
  { id \in getAllRecordings :
      recordings[id].ai_score = Null /\ recordings[id].status = "pending" }

Unscored == { id \in getAllRecordings : recordings[id].ai_score = Null }

CloseAudition(s) ==
  /\ portalStatus' = [is_open |-> FALSE]
  /\ recordings' =
       [id \in DOMAIN recordings |->
          IF id \in Unscored
            THEN Merge(recordings[id], [ai_score |-> Some(s[id]), status |-> "scored"])
            ELSE recordings[id]]
  /\ resp' = Response("close", NoEmail, FALSE, 200, "", << >>)
  /\ remote' = NoRemote
  /\ failing = 0
  /\ UNCHANGED << nextId, converting, task, payload, extracted, files, failing >>

(***************************************************************************)
(* POST /api/restart_audition (routes.ts 308-351)                          *)
(***************************************************************************)
Modes == {"soft", "hard", "", "medium"}
MsgMode == "mode must be 'soft' or 'hard'"
MsgRestartFailed == "Failed to restart audition"

\* the reset leaving ai_result as it was
softReset_keepResult == [status |-> "pending", ai_score |-> Null]

\* the updates of the soft restart
softReset == [status |-> "pending", ai_score |-> Null, ai_result |-> NullResult]

\* the hard restart's loop: uploadDir after the file named by the audio_url
\* of every stored Recording was unlinked
unlinkAll ==
  [id \in Ids |->
     IF id \in getAllRecordings THEN files[id] \ {recordings[id].audio_url}
     ELSE files[id]]

\* the handler taking every mode other than hard for soft
RestartAudition_lax(mode) ==
  /\ remote' = NoRemote
  /\ failing = 0
  /\ UNCHANGED << nextId, converting, task, payload, extracted, failing >>
  /\ IF mode # "hard"
       THEN /\ portalStatus' = [is_open |-> TRUE]
            /\ recordings' = [id \in DOMAIN recordings |->
                                Merge(recordings[id], softReset)]
            /\ UNCHANGED files
            /\ resp' = Response("restart", mode, FALSE, 200, "soft", << >>)
     ELSE /\ portalStatus' = [is_open |-> TRUE]
          /\ files' = unlinkAll
          /\ UNCHANGED recordings
          /\ resp' = Response("restart", mode, FALSE, 500, MsgRestartFailed, << >>)

RestartAudition(mode) ==
  /\ remote' = NoRemote
  /\ failing = 0
  /\ UNCHANGED << nextId, converting, task, payload, extracted, failing >>
  /\ IF mode \notin {"soft", "hard"}
       THEN /\ resp' = Response("restart", mode, FALSE, 400, MsgMode, << >>)
            /\ UNCHANGED << recordings, portalStatus, files >>
     ELSE IF mode = "soft"
       THEN /\ portalStatus' = [is_open |-> TRUE]
            /\ recordings' = [id \in DOMAIN recordings |->
                                Merge(recordings[id], softReset)]
            /\ UNCHANGED files
            /\ resp' = Response("restart", mode, FALSE, 200, "soft", << >>)
     \* hard: the portal is reopened and the files of the stored Recordings
     \* are unlinked, then storage.clearAllRecordings, which MemStorage does
     \* not define, throws a TypeError and the handler's catch block answers
     \* 500 with the Recordings still stored
     ELSE /\ portalStatus' = [is_open |-> TRUE]
          /\ files' = unlinkAll
          /\ UNCHANGED recordings
          /\ resp' = Response("restart", mode, FALSE, 500, MsgRestartFailed, << >>)

\* the hard restart over a store completed with clearAllRecordings
RestartHardCleared ==
  /\ portalStatus' = [is_open |-> TRUE]
  /\ files' = unlinkAll
  /\ recordings' = clearAllRecordings
  /\ resp' = Response("restart", "hard", FALSE, 200, "hard", << >>)
  /\ remote' = NoRemote
  /\ failing = 0
  /\ UNCHANGED << nextId, converting, task, payload, extracted, failing >>

(***************************************************************************)
(* GET /api/leaderboard (routes.ts 368-377)                                *)
(***************************************************************************)
\* getAllRecordings as the array it returns: newest first
RECURSIVE getAllRecordingsArray(_)
getAllRecordingsArray(S) ==
  IF S = {} THEN << >>
  ELSE LET newest == CHOOSE x \in S :
                       \A y \in S : recordings[y].created_at <= recordings[x].created_at
       IN << newest >> \o getAllRecordingsArray(S \ {newest})

\* r.status === "scored" && r.ai_score !== null
onBoard(id) ==
  recordings[id].status = "scored" /\ recordings[id].ai_score # Null

\* (x.ai_score || 0)
ScoreOrZero(id) ==
  IF recordings[id].ai_score = Null THEN 0 ELSE recordings[id].ai_score[1]

\* Array.prototype.sort with (a, b) => (b.ai_score || 0) - (a.ai_score || 0):
\* a stable sort, descending by score
RECURSIVE sortByScore(_)
sortByScore(arr) ==
  IF arr = << >> THEN << >>
  ELSE LET sorted == sortByScore(SubSeq(arr, 1, Len(arr) - 1))
           x == arr[Len(arr)]
           k == Cardinality({ i \in 1..Len(sorted) :
                               ScoreOrZero(sorted[i]) >= ScoreOrZero(x) })
       IN SubSeq(sorted, 1, k) \o << x >> \o SubSeq(sorted, k + 1, Len(sorted))

leaderboard ==
  LET scored == sortByScore(SelectSeq(getAllRecordingsArray(getAllRecordings), onBoard))
  IN [i \in 1..Len(scored) |-> recordings[scored[i]]]

Leaderboard ==
  /\ resp' = Response("leaderboard", NoEmail, FALSE, 200, "", leaderboard)
  /\ remote' = NoRemote
  /\ failing = 0
  /\ UNCHANGED << recordings, portalStatus, nextId, converting, task, payload,
                  extracted, files, failing >>

(***************************************************************************)
(* Specification: every interleaving of the handlers and the tasks         *)
(***************************************************************************)
Next ==
  \/ \E e \in Emails \cup {NoEmail}, f \in BOOLEAN : SubmitRequest(e, f, MaxRec)
  \/ \E e \in Emails : ConvertResolved(e)
  \/ \E e \in Emails : ConvertRejected(e)
  \/ ConvertRejectedUpdate
  \/ \E id \in Ids : StartTask(id)
  \/ \E id \in Ids, r \in UploadResponses : UploadStep(id, r)
  \/ \E id \in Ids, p \in OkPayloads : PollOk(id, p, PollBudget)
  \/ \E id \in Ids, r \in PollFailures : PollFail(id, r, PollBudget)
  \/ \E s \in [Unscored -> CloseScores] : CloseAudition(s)
  \/ \E m \in Modes : RestartAudition(m)
  \/ Leaderboard

Spec == Init /\ [][Next]_vars

TypeOK ==
  /\ portalStatus \in [is_open : BOOLEAN]
  /\ nextId \in 0..MaxRec
  /\ DOMAIN recordings \subseteq 1..nextId
  /\ \A id \in DOMAIN recordings :
       /\ recordings[id].status \in Statuses
       /\ recordings[id].id = id
       /\ recordings[id].email \in Emails

(***************************************************************************)
(* Specification: the same interleavings over a store completed with       *)
(* clearAllRecordings, so that a hard restart removes the Recordings        *)
(***************************************************************************)
NextCleared ==
  \/ \E e \in Emails \cup {NoEmail}, f \in BOOLEAN : SubmitRequest(e, f, MaxRec)
  \/ \E e \in Emails : ConvertResolved(e)
  \/ \E e \in Emails : ConvertRejected(e)
  \/ ConvertRejectedUpdate
  \/ \E id \in Ids : StartTask(id)
  \/ \E id \in Ids, r \in UploadResponses : UploadStep(id, r)
  \/ \E id \in Ids, p \in OkPayloads : PollOk(id, p, PollBudget)
  \/ \E id \in Ids, r \in PollFailures : PollFail(id, r, PollBudget)
  \/ \E s \in [Unscored -> CloseScores] : CloseAudition(s)
  \/ \E m \in Modes \ {"hard"} : RestartAudition(m)
  \/ RestartHardCleared
  \/ Leaderboard

SpecCleared == Init /\ [][NextCleared]_vars

(***************************************************************************)
(* Specification: submissions of one identity made one after another, the  *)
(* evaluation task run to its end against every kind of remote response,   *)
(* with the poll budget of the code and no administration request          *)
(***************************************************************************)
Quiet ==
  /\ InFlight = 0
  /\ \A id \in Ids : task[id].pc \in {"none", "done"}

\* the identity submitting when tasks are followed one at a time
EvalEmails == {"a@x"}

NextEval ==
  \/ \E e \in EvalEmails \cup {NoEmail}, f \in BOOLEAN :
       Quiet /\ SubmitRequest(e, f, MaxRec)
  \/ \E e \in Emails : ConvertResolved(e)
  \/ \E e \in Emails : ConvertRejected(e)
  \/ ConvertRejectedUpdate
  \/ \E id \in Ids : StartTask(id)
  \/ \E id \in Ids, r \in AllUploadResponses : UploadStep(id, r)
  \/ \E id \in Ids, p \in AllPayloads : PollOk(id, p, pollMaxAttempts)
  \/ \E id \in Ids, r \in AllPollFailures : PollFail(id, r, pollMaxAttempts)

SpecEval == Init /\ [][NextEval]_vars

\* a step of the evaluation task of Recording id
TaskStep(id) ==
  \/ StartTask(id)
  \/ \E r \in AllUploadResponses : UploadStep(id, r)
  \/ \E p \in AllPayloads : PollOk(id, p, pollMaxAttempts)
  \/ \E r \in AllPollFailures : PollFail(id, r, pollMaxAttempts)

\* the event loop runs every scheduled callback and the remote service
\* answers every request
SpecEvalFair ==
  /\ SpecEval
  /\ \A id \in Ids : WF_vars(TaskStep(id))
  /\ WF_vars(ConvertRejectedUpdate)

(***************************************************************************)
(* Specification: the same submissions and tasks with soft restarts, the   *)
(* conversions and the tasks' steps being fair                             *)
(***************************************************************************)
NextRescore ==
  \/ \E e \in EvalEmails \cup {NoEmail}, f \in BOOLEAN :
       Quiet /\ SubmitRequest(e, f, MaxRec)
  \/ \E e \in Emails : ConvertResolved(e)
  \/ \E e \in Emails : ConvertRejected(e)
  \/ ConvertRejectedUpdate
  \/ \E id \in Ids : TaskStep(id)
  \/ RestartAudition("soft")

SpecRescoreFair ==
  /\ Init /\ [][NextRescore]_vars
  /\ \A id \in Ids : WF_vars(TaskStep(id))
  /\ \A e \in Emails : WF_vars(ConvertResolved(e) \/ ConvertRejected(e))
  /\ WF_vars(ConvertRejectedUpdate)

(***************************************************************************)
(* Specification: the score extractor applied to a results list            *)
(***************************************************************************)
\* raw sub-scores in thousandths: -0.5, 0, 0.125, 0.2, 0.6, 0.95, 1, 1.5, 40, 82
RawValues == {-500, 0, 125, 200, 600, 950, 1000, 1500, 40000, 82000}

RECURSIVE SeqsUpTo(_, _)
SeqsUpTo(S, n) ==
  IF n = 0 THEN { << >> }
  ELSE LET shorter == SeqsUpTo(S, n - 1)
       IN shorter \cup { Append(q, x) : q \in shorter, x \in S }

\* results: [{ final_score: v }, ...]
ItemsOf(raw) == [i \in 1..Len(raw) |-> Item(raw[i])]

InitExtract ==
  /\ recordings = EmptyStore
  /\ portalStatus = [is_open |-> TRUE]
  /\ nextId = 0
  /\ converting = [e \in Emails |-> 0]
  /\ task = [id \in Ids |-> NoTask]
  /\ resp = NoResponse
  /\ remote = NoRemote
  /\ payload \in SeqsUpTo(RawValues, MaxLen)
  /\ extracted = << >>
  /\ files = [id \in Ids |-> {}]
  /\ failing = 0

\* routes.ts 174-185 applied to a payload whose results list is `payload`
Extract ==
  /\ Len(extracted) < 2
  /\ extracted' =
       Append(extracted,
              ai_score_percent(ai_score(Payload("completed", TRUE, ItemsOf(payload)))))
  /\ UNCHANGED << recordings, portalStatus, nextId, converting, task, resp, remote,
                  payload, files, failing >>

NextExtract == Extract

SpecExtract == InitExtract /\ [][NextExtract]_vars

(***************************************************************************)
(* Specification: the score extractor applied to two results lists         *)
(***************************************************************************)
\* raw sub-scores in thousandths, within 0..100: 0, 0.5, 1, 1.5, 2, 50, 100
PairValues == {0, 500, 1000, 1500, 2000, 50000, 100000}

InitExtractPair ==
  /\ recordings = EmptyStore
  /\ portalStatus = [is_open |-> TRUE]
  /\ nextId = 0
  /\ converting = [e \in Emails |-> 0]
  /\ task = [id \in Ids |-> NoTask]
  /\ resp = NoResponse
  /\ remote = NoRemote
  /\ payload \in SeqsUpTo(PairValues, MaxLen - 1) \X SeqsUpTo(PairValues, MaxLen - 1)
  /\ extracted = << >>
  /\ files = [id \in Ids |-> {}]
  /\ failing = 0

\* routes.ts 174-185 applied to the payloads whose results lists are the
\* two lists of `payload`
ExtractPair ==
  /\ extracted = << >>
  /\ extracted' =
       << ai_score_percent(ai_score(Payload("completed", TRUE, ItemsOf(payload[1])))),
          ai_score_percent(ai_score(Payload("completed", TRUE, ItemsOf(payload[2])))) >>
  /\ UNCHANGED << recordings, portalStatus, nextId, converting, task, resp, remote,
                  payload, files, failing >>

NextExtractPair == ExtractPair

SpecExtractPair == InitExtractPair /\ [][NextExtractPair]_vars

(***************************************************************************)
(* Properties                                                              *)
(***************************************************************************)
Owns(e) == \E id \in DOMAIN recordings : recordings[id].email = e

\* the step is the handling of a new submit request of identity e carrying
\* an audio file: it is answered at once or goes on to the conversion
NewSubmit(e) ==
  \/ /\ resp'.op = "submit" /\ resp'.email = e /\ resp'.hasFile
     /\ converting' = converting
     /\ failing = 0
  \/ converting'[e] = converting[e] + 1

\* C1: a Recording whose score is non-null has status scored.
C1_ScoreOnlyWhenScored ==
  \A id \in DOMAIN recordings :
    recordings[id].ai_score # Null => recordings[id].status = "scored"

\* C2: while the portal is open at most one Recording exists per identity,
\* also when submit requests of one identity are in flight together.
C2_OneRecordingPerIdentity ==
  portalStatus.is_open =>
    \A e \in Emails : Cardinality(getRecordingsByEmail(e)) <= 1

\* C3: a submit by an identity that already owns a Recording, made while the
\* portal is open, is rejected with the duplicate validation error, creates
\* no Recording, starts no evaluation task and leaves the store unchanged.
C3_SecondSubmitRejected ==
  [][\A e \in Emails :
       (portalStatus.is_open /\ Owns(e) /\ NewSubmit(e)) =>
         /\ resp'.code = 400
         /\ resp'.message = MsgDuplicate
         /\ recordings' = recordings
         /\ task' = task
         /\ converting' = converting
         /\ nextId' = nextId]_vars

C3_Witness ==
  /\ resp.op = "submit"
  /\ resp.code = 400
  /\ resp.message = MsgDuplicate
  /\ portalStatus.is_open
  /\ Cardinality(getRecordingsByEmail(resp.email)) = 1

\* C4: a submit carrying identity and audio made while the portal is closed
\* is rejected with the portal-closed error whether or not the identity owns
\* a Recording, and the set of Recordings is unchanged.
C4_ClosedPortalRejects ==
  [][/\ \A e \in Emails :
          (~portalStatus.is_open /\ NewSubmit(e)) =>
            /\ resp'.code = 403
            /\ resp'.message = MsgClosed
            /\ recordings' = recordings
            /\ task' = task
            /\ converting' = converting
            /\ nextId' = nextId
     \* a submit lacking identity or audio is rejected too, as a validation error
     /\ (/\ ~portalStatus.is_open /\ resp'.op = "submit"
         /\ converting' = converting /\ failing = 0) =>
            /\ resp'.message \in {MsgClosed, MsgRequired}
            /\ resp'.hasFile /\ resp'.email # NoEmail => resp'.message = MsgClosed
            /\ recordings' = recordings]_vars

C4_Witness ==
  /\ resp.op = "submit"
  /\ resp.code = 403
  /\ resp.message = MsgClosed
  /\ ~portalStatus.is_open
  /\ Owns(resp.email)

\* C5: every submit that returns success returns the Recording stored under
\* its id at that moment, with status pending, score null and result null,
\* and the evaluation task of that Recording has taken no step yet.
C5_SubmitReturnsPending ==
  (resp.op = "submit" /\ resp.code = 200) =>
    /\ Len(resp.recording) = 1
    /\ resp.recording[1].id \in DOMAIN recordings
    /\ recordings[resp.recording[1].id] = resp.recording[1]
    /\ resp.recording[1].email = resp.email
    /\ resp.recording[1].status = "pending"
    /\ resp.recording[1].ai_score = Null
    /\ resp.recording[1].ai_result = NullResult
    /\ task[resp.recording[1].id] = [NoTask EXCEPT !.pc = "scheduled"]

C5_Witness ==
  /\ resp.op = "submit"
  /\ resp.code = 200
  /\ resp.recording # << >>
  /\ resp.recording[1].id \in DOMAIN recordings
  /\ task[resp.recording[1].id].pc = "scheduled"

\* the greatest element of a non-empty list of raw values
MaxOf(raw) ==
  CHOOSE m \in { raw[i] : i \in 1..Len(raw) } : \A i \in 1..Len(raw) : raw[i] <= m

\* the integer nearest to x thousandths, halves rounded up
Nearest(x) ==
  CHOOSE k \in -1000..1000 :
    /\ 2 * Scale * k - Scale <= 2 * x
    /\ 2 * x < 2 * Scale * k + Scale

\* round(m * 100) when m <= 1 and round(m) when m > 1
Scaled(m) == IF m <= Scale THEN Nearest(m * 100) ELSE Nearest(m)

RawOf(results) == [i \in 1..Len(results) |-> results[i].final_score[1]]

\* C6: when the poll phase observes terminal status completed with a
\* non-empty results list and no admin operation interleaves, the Recording
\* ends scored, with the score extracted from that payload (81 for a single
\* final_score of 0.81) and the payload as its result.
C6_CompletedIsScored ==
  (/\ remote.kind = "poll" /\ remote.r = "ok"
   /\ remote.payload.status = "completed"
   /\ remote.payload.hasResults
   /\ Len(remote.payload.results) > 0) =>
    /\ remote.id \in DOMAIN recordings
    /\ task[remote.id].pc = "done"
    /\ recordings[remote.id].status = "scored"
    /\ recordings[remote.id].ai_score =
         Some(Scaled(MaxOf(RawOf(remote.payload.results))))
    /\ remote.payload = Completed81 => recordings[remote.id].ai_score = Some(81)
    /\ remote.payload = CompletedTakes => recordings[remote.id].ai_score = Some(95)
    /\ remote.payload = CompletedPercent => recordings[remote.id].ai_score = Some(82)
    /\ remote.payload = CompletedHalf => recordings[remote.id].ai_score = Some(13)
    /\ recordings[remote.id].ai_result = RawResult(remote.payload)

C6_Witness ==
  /\ remote.kind = "poll"
  /\ remote.payload = Completed81
  /\ task[remote.id].pc = "done"
  /\ recordings[remote.id].status = "scored"
  /\ recordings[remote.id].ai_score = Some(81)
  /\ recordings[remote.id].ai_result = RawResult(Completed81)

\* C7: when the poll phase observes terminal status failed, the Recording
\* ends closed with score null and the raw payload as its result, also when
\* the payload's results list carries sub-scores.
C7_FailedIsClosedUnscored ==
  (/\ remote.kind = "poll" /\ remote.r = "ok"
   /\ remote.payload.status = "failed"
   /\ remote.id \in DOMAIN recordings) =>
    /\ recordings[remote.id].status = "closed"
    /\ recordings[remote.id].ai_score = Null
    /\ recordings[remote.id].ai_result = RawResult(remote.payload)

\* C8: when the upload phase succeeded and the last of the 120 poll attempts
\* passes without a response reporting completed or failed, whatever the
\* responses were, the Recording ends closed with score null and a result
\* carrying the timeout diagnostic.
C8_ExhaustedIsTimeout ==
  [][\A id \in DOMAIN recordings :
       (/\ task[id].pc = "polling"
        /\ task[id].pollAttempt = pollMaxAttempts
        /\ remote'.kind = "poll" /\ remote'.id = id
        /\ ~IsTerminal(remote'.payload)) =>
         /\ task'[id].pc = "done"
         /\ recordings'[id].status = "closed"
         /\ recordings'[id].ai_score = Null
         /\ recordings'[id].ai_result.tag = "error"
         /\ recordings'[id].ai_result.error = "AI polling timed out"]_vars

\* C9: if all 3 upload attempts fail, by transport failure or non-success
\* HTTP status, the Recording ends closed with score null; as long as no
\* upload attempt has succeeded its status is never under_review and no poll
\* request is issued for it.
C9_UploadExhaustedIsClosed ==
  [][\A id \in DOMAIN recordings :
       /\ (/\ task[id].pc = "uploading"
           /\ task[id].uploadAttempt = 3
           /\ remote'.kind = "upload" /\ remote'.id = id
           /\ remote'.r \in {"http_error", "transport"}) =>
            /\ task'[id].pc = "done"
            /\ recordings'[id].status = "closed"
            /\ recordings'[id].ai_score = Null
            /\ recordings'[id].ai_result.tag = "error"
       /\ task'[id].pc = "uploading" =>
            /\ recordings'[id].status # "under_review"
            /\ task'[id].pollAttempt = 0
            /\ task'[id].uploadAttempt <= 3]_vars

C9_Witness ==
  /\ remote.kind = "upload"
  /\ remote.r \in {"http_error", "transport"}
  /\ remote.id \in DOMAIN recordings
  /\ task[remote.id].pc = "done"
  /\ recordings[remote.id].status = "closed"
  /\ recordings[remote.id].ai_result.error = "AI upload failed"

\* C10 as claimed: extraction gives null for an empty list and otherwise,
\* with m the maximum raw sub-score, round(m*100) when m <= 1 and round(m)
\* when m > 1; two applications to one input agree.
C10_ExtractIsMaxScaled ==
  \A i \in 1..Len(extracted) :
    /\ extracted[i] = extracted[1]
    /\ extracted[i] =
         IF payload = << >> THEN Null ELSE Some(Scaled(MaxOf(payload)))

\* C10 amended: extraction gives null for an empty list and otherwise, with
\* m the maximum of 0 and the raw sub-scores, round(m*100) when m <= 1 and
\* round(m) when m > 1 ([0.2,0.95,0.6] gives 95, [40,82] gives 82, [] gives
\* null); two applications to one input agree.
C10_ExtractIsMaxScaledFromZero ==
  \A i \in 1..Len(extracted) :
    /\ extracted[i] = extracted[1]
    /\ extracted[i] =
         IF payload = << >> THEN Null
         ELSE Some(Scaled(MaxOf(<< 0 >> \o payload)))
    /\ payload = << 200, 950, 600 >> => extracted[i] = Some(95)
    /\ payload = << 40000, 82000 >> => extracted[i] = Some(82)
    /\ payload = << >> => extracted[i] = Null

C10_Witness ==
  /\ payload = << 200, 950, 600 >>
  /\ extracted = << Some(95), Some(95) >>

\* C11: for every evaluation payload the remote service can return, also one
\* whose raw sub-scores lie above 100, the score stored by the evaluation
\* task is null or an integer in 0..100.
C11_StoredScoreInRange ==
  \A id \in DOMAIN recordings :
    \/ recordings[id].ai_score = Null
    \/ recordings[id].ai_score[1] \in 0..100

\* C12: after closePortal completes the portal is closed; every Recording
\* whose score was null when it ran, whatever its status, has status scored
\* and a score in 0..100; every Recording whose score was non-null is
\* unchanged in every field.
C12_CloseScoresUnscored ==
  [][resp'.op = "close" =>
       /\ resp'.code = 200
       /\ ~portalStatus'.is_open
       /\ DOMAIN recordings' = DOMAIN recordings
       /\ \A id \in DOMAIN recordings :
            IF recordings[id].ai_score = Null
              THEN /\ recordings'[id].status = "scored"
                   /\ recordings'[id].ai_score # Null
                   /\ recordings'[id].ai_score[1] \in 0..100
              ELSE recordings'[id] = recordings[id]]_vars

\* a close that scored a Recording closed by a failed upload and left a
\* Recording that carried a score as it was
C12_Witness ==
  /\ resp.op = "close"
  /\ ~portalStatus.is_open
  /\ \E id \in DOMAIN recordings :
       /\ recordings[id].status = "scored"
       /\ recordings[id].ai_result.tag = "error"
       /\ recordings[id].ai_score \in {Some(0), Some(100)}
  /\ \E id \in DOMAIN recordings :
       /\ recordings[id].status = "closed"
       /\ recordings[id].ai_score = Some(50)

\* C13: after restart(soft) completes the portal is open, the set of
\* Recording ids is the same as before, every Recording has status pending,
\* score null and result null, and its id, identity, media reference and
\* creation time are unchanged.
C13_SoftRestartResets ==
  [][(resp'.op = "restart" /\ resp'.email = "soft") =>
       /\ resp'.code = 200
       /\ portalStatus'.is_open
       /\ DOMAIN recordings' = DOMAIN recordings
       /\ \A id \in DOMAIN recordings :
            /\ recordings'[id].status = "pending"
            /\ recordings'[id].ai_score = Null
            /\ recordings'[id].ai_result = NullResult
            /\ recordings'[id].id = recordings[id].id
            /\ recordings'[id].email = recordings[id].email
            /\ recordings'[id].audio_url = recordings[id].audio_url
            /\ recordings'[id].created_at = recordings[id].created_at]_vars

\* a soft restart that reset a Recording closed by a failed conversion
C13_Witness ==
  /\ resp.op = "restart"
  /\ resp.email = "soft"
  /\ portalStatus.is_open
  /\ \E id \in DOMAIN recordings :
       /\ recordings[id].audio_url = "original"
       /\ recordings[id].status = "pending"
       /\ recordings[id].ai_result = NullResult

\* the step just taken handled restart(hard)
HardRestarted == resp.op = "restart" /\ resp.email = "hard"

\* C14: after restart(hard), from every prior state, listAll() is empty, the
\* portal is open and the request itself reports success.
C14_HardRestartEmpties ==
  HardRestarted =>
    /\ getAllRecordings = {}
    /\ portalStatus.is_open
    /\ resp.code = 200

\* C15: when restart(hard) removes a Recording whose evaluation task is still
\* uploading or polling, the task's later update does not escape as an
\* unhandled error and does not bring the Recording back.
C15_LateUpdateHandled ==
  \A id \in Ids :
    task[id].pc = "unhandled" => id \in DOMAIN recordings

\* C16: with no admin operation interleaved, every evaluation task started
\* by an accepted submit terminates for every sequence of remote responses,
\* after at most 3 upload requests and 120 poll requests, and leaves its
\* Recording scored or closed with a non-null result; no step of the task
\* sends a response to the submit caller.
C16_TaskTerminates ==
  /\ [](\A id \in Ids :
          /\ task[id].uploadAttempt <= 3
          /\ task[id].pollAttempt <= 120
          /\ task[id].pc # "unhandled"
          /\ (remote.kind # "" /\ remote.id = id) => resp = NoResponse
          /\ task[id].pc = "done" =>
               /\ id \in DOMAIN recordings
               /\ recordings[id].status \in {"scored", "closed"}
               /\ recordings[id].ai_result # NullResult)
  /\ \A id \in Ids :
       (task[id].pc = "scheduled") ~>
         (/\ task[id].pc = "done"
          /\ recordings[id].status \in {"scored", "closed"}
          /\ recordings[id].ai_result # NullResult)

\* a task that ended after its last poll request failed
C16_Witness ==
  /\ remote.kind = "poll"
  /\ remote.r = "transport"
  /\ task[remote.id].pc = "done"
  /\ recordings[remote.id].status = "closed"
  /\ recordings[remote.id].ai_result = ErrorResult("AI polling timed out", "fetch failed")

\* C17: when the audio conversion fails during a submit, no evaluation task
\* is started for that submission, the caller receives an error, and the
\* Recording stored has status closed, score null, a result carrying the
\* conversion error and the original upload as its media reference.
C17_ConversionFailureCloses ==
  (resp.op = "submit" /\ resp.code = 500) =>
    /\ resp.message = MsgConversion
    /\ resp.recording = << >>
    /\ nextId \in DOMAIN recordings
    /\ recordings[nextId].email = resp.email
    /\ recordings[nextId].status = "closed"
    /\ recordings[nextId].ai_score = Null
    /\ recordings[nextId].ai_result =
         ErrorResult("Audio conversion to mp3 failed", "ffmpeg")
    /\ recordings[nextId].audio_url = "original"
    /\ task[nextId] = NoTask

C17_Witness ==
  /\ resp.op = "submit"
  /\ resp.code = 500
  /\ nextId \in DOMAIN recordings
  /\ recordings[nextId].status = "closed"
  /\ recordings[nextId].audio_url = "original"
  /\ task[nextId].pc = "none"

\* C18: leaderboard() returns exactly the Recordings whose status is scored,
\* each once, ordered by score descending, for every reachable store content.
C18_LeaderboardIsScoredSorted ==
  resp.op = "leaderboard" =>
    /\ { resp.recording[i].id : i \in 1..Len(resp.recording) } =
         { id \in DOMAIN recordings : recordings[id].status = "scored" }
    /\ \A i \in 1..Len(resp.recording) :
         resp.recording[i] = recordings[resp.recording[i].id]
    /\ \A i, j \in 1..Len(resp.recording) :
         i # j => resp.recording[i].id # resp.recording[j].id
    /\ \A i \in 1..(Len(resp.recording) - 1) :
         /\ resp.recording[i].ai_score # Null
         /\ resp.recording[i + 1].ai_score # Null
         /\ resp.recording[i].ai_score[1] >= resp.recording[i + 1].ai_score[1]

\* C19: restart(mode) with a mode that is neither soft nor hard, a missing
\* mode included, is rejected as a request error and leaves PortalStatus and
\* every Recording unchanged.
C19_BadModeRejected ==
  [][(resp'.op = "restart" /\ resp'.email \notin {"soft", "hard"}) =>
       /\ resp'.code = 400
       /\ resp'.message = MsgMode
       /\ portalStatus' = portalStatus
       /\ recordings' = recordings
       /\ task' = task]_vars

\* a rejected restart request met a closed portal and a scored Recording
C19_Witness ==
  /\ resp.op = "restart"
  /\ resp.email \in {"", "medium"}
  /\ resp.code = 400
  /\ ~portalStatus.is_open
  /\ \E id \in DOMAIN recordings : recordings[id].status = "scored"

\* the status changes of the lifecycle
LegalChanges ==
  { << "pending", "under_review" >>, << "pending", "closed" >>,
    << "under_review", "scored" >>, << "under_review", "closed" >> }

\* C20: over any interleaving of submit, evaluation-task steps, closePortal
\* and restart, every status change of an existing Recording is one of
\* pending->under_review, pending->closed, under_review->scored,
\* under_review->closed, or a reset to pending by a restart; a Recording in
\* scored or closed changes status only through a restart.
C20_LegalStatusChanges ==
  [][\A id \in DOMAIN recordings \cap DOMAIN recordings' :
       recordings'[id].status # recordings[id].status =>
         \/ << recordings[id].status, recordings'[id].status >> \in LegalChanges
         \/ resp'.op = "restart" /\ recordings'[id].status = "pending"]_vars

\* the step gave Recording id the status scored, which it did not have
BecameScored(id) ==
  /\ id \in DOMAIN recordings'
  /\ recordings'[id].status = "scored"
  /\ id \in DOMAIN recordings => recordings[id].status # "scored"

\* the step is one of the evaluation task of Recording id, having received
\* a poll response with terminal status completed
ObservedCompleted(id) ==
  /\ remote'.kind = "poll" /\ remote'.id = id /\ remote'.r = "ok"
  /\ remote'.payload.status = "completed"

\* C21 as claimed: a Recording reaches status scored only through its
\* evaluation task having observed a poll response with terminal status
\* completed; no other operation sets status scored.
C21_ScoredOnlyByTask ==
  [][\A id \in Ids : BecameScored(id) => ObservedCompleted(id)]_vars

\* C21 amended: a Recording reaches status scored only through its
\* evaluation task having observed a poll response with terminal status
\* completed, or through the fallback scoring of closePortal.
C21_ScoredOnlyByTaskOrClose ==
  [][\A id \in Ids :
       BecameScored(id) => (ObservedCompleted(id) \/ resp'.op = "close")]_vars

\* a Recording scored by its task next to one scored by closePortal
C21_Witness ==
  /\ \E id \in DOMAIN recordings :
       /\ recordings[id].status = "scored"
       /\ recordings[id].ai_result = RawResult(Completed81)
  /\ \E id \in DOMAIN recordings :
       /\ recordings[id].status = "scored"
       /\ recordings[id].ai_result = NullResult

\* C22: after closePortal has completed and until the next restart, no
\* Recording's status or score changes, also when an evaluation task started
\* before the close finishes afterwards.  The portal is closed exactly from
\* the completion of a closePortal to the next restart.
C22_ClosedResultsAreFinal ==
  [][(~portalStatus.is_open /\ resp'.op \notin {"restart", "close"}) =>
       \A id \in DOMAIN recordings :
         /\ id \in DOMAIN recordings'
         /\ recordings'[id].status = recordings[id].status
         /\ recordings'[id].ai_score = recordings[id].ai_score]_vars

\* C23: after restart(soft) completes, every Recording that existed
\* eventually reaches scored or closed again without any further admin
\* operation, also when its evaluation task had finished before the restart.
C23_SoftRestartRescores ==
  (<>[](resp.op # "restart")) =>
    \A id \in Ids :
      (resp.op = "restart" /\ resp.email = "soft" /\ id \in DOMAIN recordings)
        ~> (id \in DOMAIN recordings /\ recordings[id].status \in {"scored", "closed"})

\* C24: no Recording is created while the portal is closed, also when
\* closePortal runs between a submit's portal check and its creation of the
\* Recording; so no Recording with score null appears in a closed portal.
C24_NoCreationWhileClosed ==
  [][\A id \in DOMAIN recordings' :
       id \notin DOMAIN recordings =>
         /\ portalStatus.is_open
         /\ portalStatus'.is_open]_vars

\* C25: in every run of an evaluation task the store update setting the
\* Recording to under_review happens after the upload response carrying a
\* task identifier and before the first poll request; no poll request is
\* issued for a Recording that the task did not set to under_review.
C25_ReviewBeforePolling ==
  [][\A id \in Ids :
       /\ (task[id].pc # "polling" /\ task'[id].pc = "polling") =>
            /\ remote'.kind = "upload" /\ remote'.id = id
            /\ remote'.r = "ok_task_id"
            /\ recordings[id].status = "pending"
            /\ recordings'[id].status = "under_review"
            /\ task'[id].pollAttempt = 1
       /\ (remote'.kind = "poll" /\ remote'.id = id) =>
            /\ task[id].pc = "polling"
            /\ task[id].pollAttempt >= 1
            /\ recordings[id].status = "under_review"
       /\ task'[id].pc \in {"scheduled", "uploading"} =>
            /\ task'[id].pollAttempt = 0
            /\ recordings'[id].status = "pending"]_vars

\* the upload was answered with a task identifier and the first poll
\* request is out
C25_Witness ==
  /\ remote.kind = "upload"
  /\ remote.r = "ok_task_id"
  /\ task[remote.id].pc = "polling"
  /\ task[remote.id].pollAttempt = 1
  /\ recordings[remote.id].status = "under_review"

\* the failed answers to a request
Failures == {"http_error", "transport"}

\* C26: an evaluation task issues at most 3 upload requests; it issues
\* attempt k+1 only if attempts 1..k each ended in a transport failure or a
\* non-success HTTP status, it issues no upload request after the first
\* HTTP-success response, and the wait after failed attempt k is
\* base_delay * k.
C26_UploadRetriesBackOff ==
  [][\A id \in Ids :
       /\ task'[id].uploadAttempt <= 3
       /\ (task[id].pc # "uploading" /\ task'[id].pc = "uploading") =>
            task'[id].uploadAttempt = 1 /\ task'[id].lastUploadErr = "null"
       /\ (task[id].pc = "uploading" /\ task'[id].pc = "uploading"
             /\ task'[id] # task[id]) =>
            /\ task'[id].uploadAttempt = task[id].uploadAttempt + 1
            /\ remote'.kind = "upload" /\ remote'.id = id
            /\ remote'.r \in Failures
            /\ task'[id].lastUploadErr = remote'.r
       /\ task'[id].pc = "uploading" =>
            /\ task'[id].uploadJson = "null"
            /\ task'[id].uploadAttempt > 1 => task'[id].lastUploadErr \in Failures
       /\ (remote'.kind = "upload" /\ remote'.id = id) =>
            /\ task[id].pc = "uploading"
            /\ IF remote'.r \in Failures
                 THEN remote'.wait = uploadBackoffMs * task[id].uploadAttempt
                 ELSE remote'.wait = 0 /\ task'[id].pc # "uploading"]_vars

\* the second upload attempt failed and the third is out after a wait of
\* twice the base delay
C26_Witness ==
  /\ remote.kind = "upload"
  /\ remote.r \in Failures
  /\ remote.wait = 2000
  /\ task[remote.id].pc = "uploading"
  /\ task[remote.id].uploadAttempt = 3

\* C27: an HTTP-success upload response that carries no task identifier is a
\* terminal failure: the Recording ends closed with score null and a
\* diagnostic result, it never enters under_review, no poll request is
\* issued, and no further upload request follows.
C27_NoTaskIdIsTerminal ==
  [][\A id \in Ids :
       /\ (remote'.kind = "upload" /\ remote'.id = id
             /\ remote'.r = "ok_no_task_id") =>
            /\ task[id].uploadAttempt <= 3
            /\ task[id].pollAttempt = 0
            /\ recordings[id].status = "pending"
            /\ task'[id].pc = "done"
            /\ recordings'[id].status = "closed"
            /\ recordings'[id].ai_score = Null
            /\ recordings'[id].ai_result = ErrorResult("No task_id returned", "")
       /\ task[id].pc = "done" =>
            /\ task'[id].pc = "done"
            /\ recordings'[id] = recordings[id]]_vars

\* an upload attempt was answered with success and no task identifier
C27_Witness ==
  /\ remote.kind = "upload"
  /\ remote.r = "ok_no_task_id"
  /\ task[remote.id].pc = "done"
  /\ recordings[remote.id].status = "closed"
  /\ recordings[remote.id].ai_result.error = "No task_id returned"

\* C28: an evaluation task issues at most 120 poll requests and issues no
\* poll request after the first response that reports terminal status
\* completed or failed; the payload used for the final update is the payload
\* of that terminal response.
C28_PollingEndsAtTerminal ==
  [][\A id \in Ids :
       /\ task'[id].pollAttempt <= 120
       /\ (remote'.kind = "poll" /\ remote'.id = id) =>
            /\ task[id].pc = "polling"
            /\ task[id].pollAttempt \in 1..120
            /\ task'[id].pc = "polling" =>
                 task'[id].pollAttempt = task[id].pollAttempt + 1
       /\ (remote'.kind = "poll" /\ remote'.id = id /\ remote'.r = "ok"
             /\ remote'.payload.status \in {"completed", "failed"}) =>
            /\ remote'.wait = 0
            /\ task'[id].pc = "done"
            /\ recordings'[id].ai_result = RawResult(remote'.payload)
       /\ task[id].pc = "done" => task'[id].pc = "done"]_vars

\* a task ended by a response reporting failed, whose payload it stored
C28_Witness ==
  /\ remote.kind = "poll"
  /\ remote.payload = FailedBare
  /\ task[remote.id].pc = "done"
  /\ recordings[remote.id].status = "closed"
  /\ recordings[remote.id].ai_result = RawResult(FailedBare)

\* C29: during polling a not-ready response, an in-progress response, any
\* other non-success response and a transport failure each consume exactly
\* one attempt and let polling continue; only the last two kinds are
\* recorded as the most recent poll error, and none of them ends polling
\* before the attempt budget is exhausted.
C29_PollingContinues ==
  [][\A id \in Ids :
       (/\ remote'.kind = "poll" /\ remote'.id = id
        /\ \/ remote'.r \in {"not_ready", "http_error", "transport"}
           \/ remote'.r = "ok" /\ remote'.payload.status \notin {"completed", "failed"}) =>
         /\ remote'.wait = pollIntervalMs
         /\ task[id].pollAttempt < 120 =>
              /\ task'[id].pc = "polling"
              /\ task'[id].pollAttempt = task[id].pollAttempt + 1
              /\ task'[id].lastPollError =
                   IF remote'.r \in Failures THEN remote'.r
                   ELSE task[id].lastPollError
              /\ recordings' = recordings
         /\ task[id].pollAttempt = 120 => task'[id].pc = "done"]_vars

\* a not-ready answer that followed a transport failure and left it recorded
C29_Witness ==
  /\ remote.kind = "poll"
  /\ remote.r = "not_ready"
  /\ task[remote.id].pc = "polling"
  /\ task[remote.id].pollAttempt >= 3
  /\ task[remote.id].lastPollError = "transport"

\* C30: for every Recording id at most one evaluation task is ever started,
\* over any sequence of submit, closePortal and restart(soft); a submit that
\* is rejected or whose conversion failed starts none.
C30_OneTaskPerRecording ==
  [][\A id \in Ids :
       /\ (task[id].pc # "scheduled" /\ task'[id].pc = "scheduled") =>
            /\ task[id].pc = "none"
            /\ id \notin DOMAIN recordings
            /\ id \in DOMAIN recordings'
            /\ resp'.op = "submit" /\ resp'.code = 200
            /\ resp'.recording[1].id = id
       /\ (task[id].pc # "uploading" /\ task'[id].pc = "uploading") =>
            task[id].pc = "scheduled"
       /\ task[id].pc # "none" => task'[id].pc # "none"
       /\ (resp'.op # "submit" \/ resp'.code # 200) =>
            (task'[id].pc = "scheduled" => task[id].pc = "scheduled")]_vars

\* a soft restart reset a Recording whose task had finished, starting none
C30_Witness ==
  /\ resp.op = "restart"
  /\ resp.email = "soft"
  /\ \E id \in DOMAIN recordings :
       /\ task[id].pc = "done"
       /\ recordings[id].status = "pending"

(***************************************************************************)
(* Frame of the store updates                                              *)
(***************************************************************************)
Fields == {"id", "email", "audio_url", "status", "ai_score", "ai_result", "created_at"}

\* the step leaves the named fields of Recording id as they were
Keeps(id, fields) == \A f \in fields : recordings'[id][f] = recordings[id][f]

\* the fields named by the patch that the step just taken applied to
\* Recording id: close_audition's, the restart's reset, the conversion
\* error, the task's under_review and the task's final update
PatchOf(id) ==
  IF resp'.op = "close" THEN {"ai_score", "status"}
  ELSE IF resp'.op = "restart" THEN {"status", "ai_score", "ai_result"}
  ELSE IF resp'.op = "submit" THEN {"ai_score", "ai_result"}
  ELSE IF remote'.kind = "upload" /\ remote'.r = "ok_task_id" THEN {"status"}
  ELSE {"status", "ai_score", "ai_result"}

\* C31: every change of a stored Recording is one whole patch laid over the
\* record as it stood just before: the fields the patch does not name keep
\* the values earlier patches gave them (nothing is lost to a stale copy),
\* and the fields it names are all written: close_audition stores score and
\* scored together, the soft restart pending with score and result null, the
\* conversion failure its error, the task under_review alone or a final
\* status together with its result
C31_PatchesApplyWhole ==
  [][\A id \in DOMAIN recordings \cap DOMAIN recordings' :
       recordings'[id] # recordings[id] =>
         /\ Keeps(id, Fields \ PatchOf(id))
         /\ resp'.op = "close" =>
              recordings'[id].status = "scored" /\ recordings'[id].ai_score # Null
         /\ resp'.op = "restart" =>
              /\ recordings'[id].status = "pending"
              /\ recordings'[id].ai_score = Null
              /\ recordings'[id].ai_result = NullResult
         /\ resp'.op = "submit" =>
              recordings'[id].ai_score = Null /\ recordings'[id].ai_result.tag = "error"
         /\ resp'.op = "" =>
              /\ remote'.id = id
              /\ IF PatchOf(id) = {"status"}
                   THEN recordings'[id].status = "under_review"
                   ELSE /\ recordings'[id].status \in {"scored", "closed"}
                        /\ recordings'[id].ai_result # NullResult]_vars

\* the task's under_review patch was laid over close_audition's patch: the
\* Recording is under review and keeps the score the close gave it
C31_Witness ==
  /\ remote.kind = "upload"
  /\ remote.r = "ok_task_id"
  /\ remote.id \in DOMAIN recordings
  /\ recordings[remote.id].status = "under_review"
  /\ recordings[remote.id].ai_score # Null

\* C32: in every reachable state, the states between the two store calls of
\* the conversion-failure path included, a Recording with status closed has
\* a non-null result.
C32_ClosedHasResult ==
  \A id \in DOMAIN recordings :
    recordings[id].status = "closed" => recordings[id].ai_result # NullResult

(***************************************************************************)
(* Media artifacts                                                         *)
(***************************************************************************)
\* the artifact the audio_url of stored Recording id names is in uploadDir
ArtifactExists(id) == recordings[id].audio_url \in files[id]

\* C33: when a hard restart has been answered, with success or with an error,
\* every Recording still stored has its media artifact, and no artifact of a
\* Recording that is no longer stored remains.
C33_HardRestartDeletesTogether ==
  (resp.op = "restart" /\ resp.email = "hard") =>
    /\ \A id \in DOMAIN recordings : ArtifactExists(id)
    /\ \A id \in Ids \ DOMAIN recordings : files[id] = {}

\* C34: the step of a submit that stores its Recording leaves the artifact
\* the Recording names in uploadDir; the original upload is gone only when
\* the conversion succeeded and the mp3 is written, and after a failed
\* conversion it is still there when the failure path has run to its end.
C34_OriginalOutlivesConversion ==
  [][/\ \A id \in DOMAIN recordings' \ DOMAIN recordings :
          /\ recordings'[id].audio_url \in files'[id]
          /\ "original" \notin files'[id] =>
               /\ "mp3" \in files'[id]
               /\ recordings'[id].status = "pending"
               /\ recordings'[id].audio_url = "mp3"
          /\ recordings'[id].status = "closed" => "original" \in files'[id]
     /\ failing # 0 => "original" \in files'[failing]]_vars

\* a conversion has failed and the closed Recording names the upload, which
\* is still in uploadDir
C34_Witness ==
  /\ resp.op = "submit"
  /\ resp.code = 500
  /\ nextId \in DOMAIN recordings
  /\ recordings[nextId].audio_url = "original"
  /\ files[nextId] = {"original"}

\* C35: no step of a submit, an evaluation task, close_audition or a restart
\* changes the id, the identity, the created_at or the media reference of a
\* Recording that is stored before and after the step.
C35_IdentityFieldsImmutable ==
  [][\A id \in DOMAIN recordings \cap DOMAIN recordings' :
       Keeps(id, {"id", "email", "created_at", "audio_url"})]_vars

\* a Recording whose task ran to its end was reset by a soft restart and
\* still has the id, creation stamp and media reference of its creation
C35_Witness ==
  /\ resp.op = "restart"
  /\ resp.code = 200
  /\ \E id \in DOMAIN recordings :
       /\ task[id].pc = "done"
       /\ recordings[id].id = id
       /\ recordings[id].created_at = id
       /\ recordings[id].audio_url = "mp3"

\* the step just taken is a step of the evaluation task of Recording id
TaskStepOf(id) ==
  /\ resp' = NoResponse
  /\ task'[id] # task[id]

\* C36: a step of the evaluation task of one Recording leaves PortalStatus,
\* the set of Recordings, every other Recording and every other task as
\* they were, and changes nothing of its own Recording but status, score
\* and result.
C36_TaskTouchesOwnRecording ==
  [][\A id \in Ids :
       TaskStepOf(id) =>
         /\ portalStatus' = portalStatus
         /\ DOMAIN recordings' = DOMAIN recordings
         /\ \A j \in DOMAIN recordings \ {id} : recordings'[j] = recordings[j]
         /\ \A j \in Ids \ {id} : task'[j] = task[j]
         /\ id \in DOMAIN recordings =>
              Keeps(id, Fields \ {"status", "ai_score", "ai_result"})]_vars

\* the task of one Recording has stored its final result while another
\* Recording, whose task has yet to start, is still as it was created
C36_Witness ==
  /\ remote.kind = "poll"
  /\ remote.id \in DOMAIN recordings
  /\ task[remote.id].pc = "done"
  /\ recordings[remote.id].ai_result.tag = "raw"
  /\ \E j \in DOMAIN recordings \ {remote.id} :
       /\ task[j].pc = "scheduled"
       /\ recordings[j].status = "pending"
       /\ recordings[j].ai_result = NullResult

\* C37: a Recording with status scored has a non-null score, also after its
\* task observed status completed with an empty or missing results list.
C37_ScoredHasScore ==
  \A id \in DOMAIN recordings :
    recordings[id].status = "scored" => recordings[id].ai_score # Null

\* C38: a restart request answered with an error leaves PortalStatus, every
\* Recording and every media artifact as they were before the request.
C38_FailedRestartChangesNothing ==
  [][(resp'.op = "restart" /\ resp'.code >= 400) =>
       /\ portalStatus' = portalStatus
       /\ recordings' = recordings
       /\ files' = files]_vars

\* identity e owns the Recording of a submit whose conversion failed
OwnsFailedConversion(e) ==
  \E id \in DOMAIN recordings :
    recordings[id].email = e /\ recordings[id].audio_url = "original"

\* C39 as stated: the submit whose conversion failed leaves the identity the
\* owner of a closed Recording, and every later submit of that identity is
\* rejected as a duplicate while that Recording is stored.
C39_FailedSubmitBlocksIdentity ==
  [][/\ (resp'.op = "submit" /\ resp'.code = 500) =>
          \E id \in DOMAIN recordings' :
            /\ recordings'[id].email = resp'.email
            /\ recordings'[id].status = "closed"
     /\ \A e \in Emails :
          (OwnsFailedConversion(e) /\ NewSubmit(e)) =>
            /\ resp'.code = 400
            /\ resp'.message = MsgDuplicate
            /\ recordings' = recordings
            /\ converting' = converting]_vars

\* C39, amended: the submit whose conversion failed leaves the identity the
\* owner of a closed Recording, and every later submit of that identity is
\* rejected while that Recording is stored: as a duplicate while the portal
\* is open, with the portal-closed error while it is closed.
C39_FailedSubmitBlocksIdentityByPortal ==
  [][/\ (resp'.op = "submit" /\ resp'.code = 500) =>
          \E id \in DOMAIN recordings' :
            /\ recordings'[id].email = resp'.email
            /\ recordings'[id].status = "closed"
     /\ \A e \in Emails :
          (OwnsFailedConversion(e) /\ NewSubmit(e)) =>
            /\ IF portalStatus.is_open
                 THEN resp'.code = 400 /\ resp'.message = MsgDuplicate
                 ELSE resp'.code = 403 /\ resp'.message = MsgClosed
            /\ recordings' = recordings
            /\ converting' = converting]_vars

\* the owner of the Recording of a failed conversion has submitted again
\* and was rejected as a duplicate
C39_Witness ==
  /\ resp.op = "submit"
  /\ resp.hasFile
  /\ resp.code = 400
  /\ resp.message = MsgDuplicate
  /\ \E id \in DOMAIN recordings :
       /\ recordings[id].email = resp.email
       /\ recordings[id].audio_url = "original"
       /\ recordings[id].status = "closed"

\* both lists of `payload` are non-empty and their scores were extracted
PairExtracted ==
  /\ Len(extracted) = 2
  /\ payload[1] # << >>
  /\ payload[2] # << >>

\* C40 as stated: over raw values in 0..100, when the greatest raw sub-score
\* of payload A is at most that of payload B, the score extracted from A is
\* at most the score extracted from B.
C40_ExtractionMonotone ==
  (PairExtracted /\ MaxOf(payload[1]) <= MaxOf(payload[2])) =>
    extracted[1][1] <= extracted[2][1]

\* C40, amended: the same holds when the two greatest raw sub-scores lie on
\* the same side of 1, both at most 1 or both above 1.
C40_ExtractionMonotoneWithinRange ==
  (/\ PairExtracted
   /\ MaxOf(payload[1]) <= MaxOf(payload[2])
   /\ (MaxOf(payload[1]) <= Scale) = (MaxOf(payload[2]) <= Scale)) =>
    extracted[1][1] <= extracted[2][1]

\* 0.5 against a list whose greatest raw sub-score is 1: 50 and 100
C40_Witness ==
  /\ payload = << << 500 >>, << 0, 1000 >> >>
  /\ extracted = << Some(50), Some(100) >>

====
